---- MODULE Spec2Model ----
(***************************************************************************)
(* Model of utils/UW_dataset.py: class UWDataset.                          *)
(*                                                                         *)
(* The constructor is modelled as a sequential process (pc) whose steps    *)
(* are the blocks of __init__: the loop over the split directories, the    *)
(* train branch (oversampling, one class group per step), the eval branch  *)
(* and the closing summary.  __len__ and __getitem__ are actions on the    *)
(* constructed object.  The file system (spreadsheets, image files) and    *)
(* the image decoder are the environment: what they hold is chosen when    *)
(* the code reads them.                                                    *)
(***************************************************************************)
EXTENDS Integers, Sequences, FiniteSets, TLC

VARIABLES pc, train, split_list, splitIdx, seen, annot, disk, classIdx,
          max_repeats, emitted, annotations, error, index, result

vars == <<pc, train, split_list, splitIdx, seen, annot, disk, classIdx,
          max_repeats, emitted, annotations, error, index, result>>

---------------------------------------------------------------------------
(* Bounds of the model *)

MaxSplits == 2

MaxRows == 2

MaxFiles == 2

OversampleRows == 5

TrainRows == 3

---------------------------------------------------------------------------
(* Inputs *)

\* The configured class names (the list_classes argument).
list_classes == <<"A", "B">>

\* Values of the 'annotation' column: the configured classes and one name
\* that is not configured.
Labels == {"A", "B", "X"}

\* glob(join(split, "*.ods")) finds zero, one or several files.
AnnotationFileCounts == 0..2

\* The class columns of a spreadsheet row that annotates label l:
\* row[list_classes].to_list().
ClassColumns(l) ==
    [i \in 1..Len(list_classes) |-> IF list_classes[i] = l THEN 1 ELSE 0]

\* A spreadsheet row: its annotation, its class columns, and the number of
\* image files on disk whose name starts with the row's image root.
RowsOver(labels, counts) ==
    {[annotation |-> l, one_hot |-> ClassColumns(l), files |-> k] :
        l \in labels, k \in counts}

AllRows == RowsOver(Labels, 0..MaxFiles)

\* Rows of sheets that annotate configured classes only, every row with
\* exactly one image file.
ConfiguredRows == RowsOver({"A", "B"}, {1})

\* Rows of sheets that annotate configured classes only, with any number
\* of image files.
FileRows == RowsOver({"A", "B"}, 0..MaxFiles)

SeqsUpTo(S, n) == UNION {[1..m -> S] : m \in 0..n}

---------------------------------------------------------------------------
(* Helpers *)

\* Python's  x in keys  /  list.index(x)  (0-based); -1 stands for ValueError.
RECURSIVE IndexFrom(_, _, _)
IndexFrom(list, x, i) ==
    IF i > Len(list) THEN -1
    ELSE IF list[i] = x THEN i - 1
    ELSE IndexFrom(list, x, i + 1)

ListIndex(list, x) == IndexFrom(list, x, 1)

\* Variant: a subscript that rejects negative indices.
InRangeNonNegative(list, i) == 0 <= i /\ i < Len(list)

\* Python list subscript: list[i] for -len <= i < len.
InRange(list, i) == -Len(list) <= i /\ i < Len(list)

Subscript(list, i) == IF i >= 0 THEN list[i + 1] ELSE list[Len(list) + i + 1]

\* Position (0-based) of the first maximum of a non-empty number sequence.
Argmax(v) ==
    (CHOOSE i \in 1..Len(v) :
        /\ \A j \in 1..Len(v) : v[j] <= v[i]
        /\ \A j \in 1..(i - 1) : v[j] < v[i]) - 1

Max(S) == CHOOSE m \in S : \A x \in S : x <= m

RemoveAt(list, i) == SubSeq(list, 1, i - 1) \o SubSeq(list, i + 1, Len(list))

\* Every order random.shuffle can leave the list in.
RECURSIVE Shuffles(_)
Shuffles(list) ==
    IF Len(list) = 0 THEN {<<>>}
    ELSE UNION {{<<list[i]>> \o t : t \in Shuffles(RemoveAt(list, i))} :
                    i \in 1..Len(list)}

\* join(split, f"{id_rov:02d}_{img_id:04d}"): the split and the row's id.
ImageRoot(split, row) == <<split, row>>

\* A file on disk: the image root its name starts with, and its suffix.
FilesOf(root, k) == {<<root[1], root[2], j>> : j \in 1..k}

\* glob(image_root + "*"): the files whose name starts with the root.
Glob(files, root) == {p \in files : <<p[1], p[2]>> = root}

\* sorted(...) of file names sharing one root: ascending suffix.
RECURSIVE Sorted(_)
Sorted(S) ==
    IF S = {} THEN <<>>
    ELSE LET m == CHOOSE p \in S : \A q \in S : p[3] <= q[3]
         IN  <<m>> \o Sorted(S \ {m})

\* Total number of annotation rows held by the groups.
RECURSIVE NumRows(_)
NumRows(groups) ==
    IF Len(groups) = 0 THEN 0
    ELSE Len(groups[1].list) + NumRows(Tail(groups))

---------------------------------------------------------------------------
(* Construction: the loop over the splits (lines 39-63) *)

\* annot[label].append(entry), creating the group on the label's first row;
\* groups keep the dictionary's insertion order.
AppendRow(groups, label, entry) ==
    LET at == {i \in 1..Len(groups) : groups[i].label = label}
    IN  IF at = {}
        THEN Append(groups, [label |-> label, list |-> <<entry>>])
        ELSE LET i == CHOOSE i \in at : TRUE
             IN  [groups EXCEPT ![i].list = Append(@, entry)]

\* for index, row in df.iterrows(): rows r..Len(rows) of the split's sheet.
RECURSIVE ReadRows(_, _, _, _)
ReadRows(groups, split, rows, r) ==
    IF r > Len(rows) THEN groups
    ELSE ReadRows(AppendRow(groups, rows[r].annotation,
                            [image_root |-> ImageRoot(split, r),
                             one_hot |-> rows[r].one_hot]),
                  split, rows, r + 1)

\* The image files that belong to the rows of one split.
SplitFiles(split, rows) ==
    UNION {FilesOf(ImageRoot(split, r), rows[r].files) : r \in 1..Len(rows)}

\* Variant: a split without exactly one sheet is skipped and the loop goes
\* on with the next split.
ReadSplitSkipping(kinds, cap) ==
    /\ pc = "scan"
    /\ splitIdx < Len(split_list)
    /\ LET split == split_list[splitIdx + 1]
       IN  \E annotation_files \in AnnotationFileCounts :
             IF annotation_files # 1
                THEN /\ seen' = Append(seen, [annotation_files |-> annotation_files,
                                              rows |-> 0])
                     /\ splitIdx' = splitIdx + 1
                     /\ UNCHANGED <<pc, error, annot, disk>>
                ELSE \E rows \in SeqsUpTo(kinds, cap - NumRows(annot)) :
                       /\ seen' = Append(seen, [annotation_files |-> annotation_files,
                                                rows |-> Len(rows)])
                       /\ annot' = ReadRows(annot, split, rows, 1)
                       /\ disk' = disk \cup SplitFiles(split, rows)
                       /\ splitIdx' = splitIdx + 1
                       /\ UNCHANGED <<pc, error>>
    /\ UNCHANGED <<train, split_list, classIdx, max_repeats, emitted,
                   annotations, index, result>>

\* One iteration of  for split in split_list  reading a sheet whose rows
\* are drawn from kinds, the model holding at most cap rows in all.
ReadSplitFrom(kinds, cap) ==
    /\ pc = "scan"
    /\ splitIdx < Len(split_list)
    /\ LET split == split_list[splitIdx + 1]
       IN  \E annotation_files \in AnnotationFileCounts :
             IF annotation_files # 1
                THEN /\ seen' = Append(seen, [annotation_files |-> annotation_files,
                                              rows |-> 0])
                     /\ pc' = "aborted"
                     /\ error' = "SystemExit"
                     /\ UNCHANGED <<splitIdx, annot, disk>>
                ELSE \E rows \in SeqsUpTo(kinds, cap - NumRows(annot)) :
                       /\ seen' = Append(seen, [annotation_files |-> annotation_files,
                                                rows |-> Len(rows)])
                       /\ annot' = ReadRows(annot, split, rows, 1)
                       /\ disk' = disk \cup SplitFiles(split, rows)
                       /\ splitIdx' = splitIdx + 1
                       /\ UNCHANGED <<pc, error>>
    /\ UNCHANGED <<train, split_list, classIdx, max_repeats, emitted,
                   annotations, index, result>>

ReadSplit == ReadSplitFrom(AllRows, MaxRows)

---------------------------------------------------------------------------
(* Construction: the train branch (lines 65-87) *)

Rep(max_count, n) == max_count \div n

\* Variant: the partial pass over annot_list[:rem] is left out.
RemDropped(max_count, n) == 0

Rem(max_count, n) == max_count % n

\* max([len(annot_list) for annot_list in annot.values()]); max([]) raises.
StartOversample ==
    /\ pc = "scan"
    /\ splitIdx = Len(split_list)
    /\ train
    /\ IF Len(annot) = 0
       THEN /\ pc' = "failed"
            /\ error' = "ValueError"
            /\ UNCHANGED max_repeats
       ELSE /\ max_repeats' = Max({Len(annot[i].list) : i \in 1..Len(annot)})
            /\ pc' = "oversample"
            /\ UNCHANGED error
    /\ UNCHANGED <<train, split_list, splitIdx, seen, annot, disk, classIdx,
                   emitted, annotations, index, result>>

RECURSIVE Repeat(_, _)
Repeat(list, n) == IF n <= 0 THEN <<>> ELSE list \o Repeat(list, n - 1)

\* Variant: the partial pass takes the last rem entries, annot_list[-rem:].
EmissionOrderTail(list, rep, rem) ==
    Repeat(list, rep) \o SubSeq(list, Len(list) - rem + 1, Len(list))

\* The entries in the order the two emission loops visit them: rep passes
\* over the whole list, then annot_list[:rem].
EmissionOrder(list, rep, rem) ==
    Repeat(list, rep) \o SubSeq(list, 1, IF rem < Len(list) THEN rem ELSE Len(list))

\* Variant: one record per visit, for the first file only (glob(...)[:1]).
ExpandFirstFile(files, label, entry) ==
    LET same_annot == Sorted(Glob(files, entry.image_root))
    IN  [j \in 1..(IF Len(same_annot) > 0 THEN 1 ELSE 0) |->
            [image_path |-> same_annot[j], label |-> label,
             one_hot |-> entry.one_hot]]

\* The training records one visit of an entry appends: one per file of
\* sorted(glob(image_root + "*")).
Expand(files, label, entry) ==
    LET same_annot == Sorted(Glob(files, entry.image_root))
    IN  [j \in 1..Len(same_annot) |->
            [image_path |-> same_annot[j], label |-> label,
             one_hot |-> entry.one_hot]]

RECURSIVE ExpandAll(_, _, _)
ExpandAll(files, label, list) ==
    IF Len(list) = 0 THEN <<>>
    ELSE Expand(files, label, list[1]) \o ExpandAll(files, label, Tail(list))

\* One iteration of  for label, annot_list in annot.items().
OversampleClass ==
    /\ pc = "oversample"
    /\ classIdx < Len(annot)
    /\ LET label == annot[classIdx + 1].label
       IN  \E annot_list \in Shuffles(annot[classIdx + 1].list) :
             LET rep == Rep(max_repeats, Len(annot_list))
                 rem == Rem(max_repeats, Len(annot_list))
                 order == EmissionOrder(annot_list, rep, rem)
             IN  /\ annot' = [annot EXCEPT ![classIdx + 1].list = annot_list]
                 /\ emitted' = emitted \o
                        [j \in 1..Len(order) |->
                            [label |-> label, image_root |-> order[j].image_root]]
                 /\ annotations' = annotations \o ExpandAll(disk, label, order)
    /\ classIdx' = classIdx + 1
    /\ pc' = IF classIdx + 1 = Len(annot) THEN "summary" ELSE "oversample"
    /\ UNCHANGED <<train, split_list, splitIdx, seen, disk, max_repeats,
                   error, index, result>>

---------------------------------------------------------------------------
(* Construction: the eval branch (lines 107-112) *)

\* The evaluation record of one entry: all its files as one group.
EvalRecord(files, label, entry) ==
    [image_path |-> Sorted(Glob(files, entry.image_root)), label |-> label,
     one_hot |-> entry.one_hot]

\* Variant: the eval branch expands every entry into one record per file.
RECURSIVE EvalRecordsPerFile(_, _)
EvalRecordsPerFile(files, groups) ==
    IF Len(groups) = 0 THEN <<>>
    ELSE LET perFile == ExpandAll(files, groups[1].label, groups[1].list)
         IN  [j \in 1..Len(perFile) |->
                 [image_path |-> <<perFile[j].image_path>>,
                  label |-> perFile[j].label,
                  one_hot |-> perFile[j].one_hot]]
             \o EvalRecordsPerFile(files, Tail(groups))

RECURSIVE EvalRecords(_, _)
EvalRecords(files, groups) ==
    IF Len(groups) = 0 THEN <<>>
    ELSE [j \in 1..Len(groups[1].list) |->
             EvalRecord(files, groups[1].label, groups[1].list[j])]
         \o EvalRecords(files, Tail(groups))

BuildEval ==
    /\ pc = "scan"
    /\ splitIdx = Len(split_list)
    /\ ~train
    /\ annotations' = EvalRecords(disk, annot)
    /\ pc' = "summary"
    /\ UNCHANGED <<train, split_list, splitIdx, seen, annot, disk, classIdx,
                   max_repeats, emitted, error, index, result>>

---------------------------------------------------------------------------
(* Construction: the closing summary (lines 121-125) *)

\* Variant: the summary guards the read of self.annotations[0].
SummaryUnchecked ==
    /\ pc = "summary"
    /\ pc' = "done"
    /\ UNCHANGED <<train, split_list, splitIdx, seen, annot, disk, classIdx,
                   max_repeats, emitted, annotations, error, index, result>>

\* The summary reads self.annotations[0]: an empty list raises IndexError.
Summary ==
    /\ pc = "summary"
    /\ IF Len(annotations) = 0
       THEN pc' = "failed" /\ error' = "IndexError"
       ELSE pc' = "done" /\ UNCHANGED error
    /\ UNCHANGED <<train, split_list, splitIdx, seen, annot, disk, classIdx,
                   max_repeats, emitted, annotations, index, result>>

---------------------------------------------------------------------------
(* The constructed object: __len__ and __getitem__ *)

\* No call is in progress.
NoResult == [status |-> "none", value |-> -1]

LenCall ==
    /\ pc = "done"
    /\ result.status = "none"
    /\ result' = [status |-> "len", value |-> Len(annotations)]
    /\ index' = 0
    /\ UNCHANGED <<pc, train, split_list, splitIdx, seen, annot, disk,
                   classIdx, max_repeats, emitted, annotations, error>>

\* self.list_classes.index(label), the last step of both branches.
EncodeLabel(label) ==
    LET i == ListIndex(list_classes, label)
    IN  IF i < 0 THEN [status |-> "ValueError", value |-> -1]
        ELSE [status |-> "ok", value |-> i]

\* What __getitem__(i) does on the records recs; decoded tells whether
\* cv2.imread returns an image for every path it is given (it returns None
\* on an unreadable file, which the [:,:,::-1] subscript rejects).
GetResult(recs, isTrain, i, decoded) ==
    IF ~InRange(recs, i) THEN [status |-> "IndexError", value |-> -1]
    ELSE LET rec == Subscript(recs, i)
         IN  IF isTrain
             THEN IF ~decoded THEN [status |-> "TypeError", value |-> -1]
                  ELSE EncodeLabel(rec.label)
             ELSE IF Len(rec.image_path) > 0 /\ ~decoded
                  THEN [status |-> "TypeError", value |-> -1]
                  ELSE IF Len(rec.image_path) = 0
                       THEN [status |-> "RuntimeError", value |-> -1]
                       ELSE EncodeLabel(rec.label)

\* Variant: a retrieval that consumes the record it returns
\* (self.annotations.pop(index)).
GetItemPopping ==
    /\ pc = "done"
    /\ result.status = "none"
    /\ \E i \in (0 - Len(annotations) - 1)..Len(annotations), decoded \in BOOLEAN :
         /\ index' = i
         /\ result' = GetResult(annotations, train, i, decoded)
         /\ annotations' =
                IF InRange(annotations, i)
                THEN RemoveAt(annotations, IF i >= 0 THEN i + 1
                                           ELSE Len(annotations) + i + 1)
                ELSE annotations
    /\ UNCHANGED <<pc, train, split_list, splitIdx, seen, annot, disk,
                   classIdx, max_repeats, emitted, error>>

GetItem ==
    /\ pc = "done"
    /\ result.status = "none"
    /\ \E i \in (0 - Len(annotations) - 1)..Len(annotations), decoded \in BOOLEAN :
         /\ index' = i
         /\ result' = GetResult(annotations, train, i, decoded)
    /\ UNCHANGED <<pc, train, split_list, splitIdx, seen, annot, disk,
                   classIdx, max_repeats, emitted, annotations, error>>

\* The call returns (or raises) to the caller, which takes the outcome.
Return ==
    /\ pc = "done"
    /\ result.status # "none"
    /\ result' = NoResult
    /\ index' = 0
    /\ UNCHANGED <<pc, train, split_list, splitIdx, seen, annot, disk,
                   classIdx, max_repeats, emitted, annotations, error>>

---------------------------------------------------------------------------
(* Specifications *)

Init ==
    /\ pc = "scan"
    /\ train \in BOOLEAN
    /\ split_list \in {[i \in 1..n |-> i] : n \in 0..MaxSplits}
    /\ splitIdx = 0
    /\ seen = <<>>
    /\ annot = <<>>
    /\ disk = {}
    /\ classIdx = 0
    /\ max_repeats = 0
    /\ emitted = <<>>
    /\ annotations = <<>>
    /\ error = "none"
    /\ index = 0
    /\ result = NoResult

Next ==
    \/ ReadSplit
    \/ StartOversample
    \/ OversampleClass
    \/ BuildEval
    \/ Summary
    \/ LenCall
    \/ GetItem
    \/ Return

Spec == Init /\ [][Next]_vars

\* Train-mode construction over larger sheets of configured classes.
ReadConfiguredSplit == ReadSplitFrom(ConfiguredRows, OversampleRows)

InitOversample == Init /\ train

NextOversample ==
    \/ ReadConfiguredSplit
    \/ StartOversample
    \/ OversampleClass
    \/ Summary

SpecOversample == InitOversample /\ [][NextOversample]_vars

\* Train-mode construction over sheets whose rows have any number of files.
ReadTrainSplit == ReadSplitFrom(FileRows, TrainRows)

InitTrain == Init /\ train

NextTrain ==
    \/ ReadTrainSplit
    \/ StartOversample
    \/ OversampleClass
    \/ Summary

SpecTrain == InitTrain /\ [][NextTrain]_vars

---------------------------------------------------------------------------
(* Quantities the properties are stated in *)

\* The largest number of rows any class group holds.
MaxCount == Max({Len(annot[i].list) : i \in 1..Len(annot)})

\* How often the emission loops have visited entries of a class / an entry.
EmissionsOf(label) ==
    Cardinality({j \in 1..Len(emitted) : emitted[j].label = label})

EmitCount(root) ==
    Cardinality({j \in 1..Len(emitted) : emitted[j].image_root = root})

\* The number of records that carry a label.
RecordsOf(label) ==
    Cardinality({j \in 1..Len(annotations) : annotations[j].label = label})

\* The number of image files on disk that start with a root.
FileCount(root) ==
    Cardinality({p \in disk : p[1] = root[1] /\ p[2] = root[2]})

AllEntries ==
    UNION {{annot[i].list[e] : e \in 1..Len(annot[i].list)} : i \in 1..Len(annot)}

EveryEntryHasOneFile == \A en \in AllEntries : FileCount(en.image_root) = 1

\* The class columns read for the row a root was built from.
OneHotAt(root) == (CHOOSE en \in AllEntries : en.image_root = root).one_hot

\* The rows read from all the sheets.
RECURSIVE RowsRead(_)
RowsRead(s) == IF Len(s) = 0 THEN 0 ELSE s[1].rows + RowsRead(Tail(s))

GetStatuses == {"ok", "IndexError", "TypeError", "RuntimeError", "ValueError"}

---------------------------------------------------------------------------
(* Oversampling *)

\* C1: once a class group of n rows has been through the train branch, its
\* entries have been emitted rep*n + rem = max_count times in all (rep and
\* rem the quotient and remainder of max_count by n, max_count the largest
\* group over all splits), and when every entry has exactly one image file
\* the class holds exactly max_count training records.
C1_EmissionsEqualMaxCount ==
    (train /\ pc \in {"oversample", "summary", "done", "failed"}) =>
        \A c \in 1..classIdx :
            LET n == Len(annot[c].list)
                rep == MaxCount \div n
                rem == MaxCount % n
            IN  /\ n >= 1
                /\ rep * n + rem = MaxCount
                /\ EmissionsOf(annot[c].label) = MaxCount
                /\ EveryEntryHasOneFile =>
                       RecordsOf(annot[c].label) = MaxCount

\* A dataset built from groups of 2 and 3 rows: both classes hold 3 records.
C1_Witness ==
    /\ pc = "done"
    /\ train
    /\ Len(annot) = 2
    /\ {Len(annot[1].list), Len(annot[2].list)} = {2, 3}
    /\ EveryEntryHasOneFile
    /\ RecordsOf("A") = 3
    /\ RecordsOf("B") = 3

\* C10: in every class group that has been through the train branch, the
\* first rem entries of the shuffled order have been emitted rep + 1 times
\* and every other entry rep times, with rep >= 1: no entry is dropped, two
\* entries of a class differ by at most one emission, and rem = 0 adds none.
C10_RemainderDistribution ==
    (train /\ pc \in {"oversample", "summary", "done", "failed"}) =>
        \A c \in 1..classIdx :
            LET list == annot[c].list
                n == Len(list)
                rep == MaxCount \div n
                rem == MaxCount % n
            IN  /\ rep >= 1
                /\ \A e \in 1..n :
                       EmitCount(list[e].image_root) =
                           IF e <= rem THEN rep + 1 ELSE rep
                /\ \A e, f \in 1..n :
                       EmitCount(list[e].image_root)
                           - EmitCount(list[f].image_root) \in {-1, 0, 1}

\* A group of 2 rows beside a group of 3: its first entry emitted twice, its
\* second once; the group of 3 (rem = 0) emitted once each.
C10_Witness ==
    /\ pc = "done"
    /\ \E c, d \in 1..Len(annot) :
         /\ Len(annot[c].list) = 2
         /\ Len(annot[d].list) = 3
         /\ EmitCount(annot[c].list[1].image_root) = 2
         /\ EmitCount(annot[c].list[2].image_root) = 1
         /\ \A e \in 1..3 : EmitCount(annot[d].list[e].image_root) = 1

\* The training records a sequence of emissions must have appended: for
\* each emitted entry, one record per file, in ascending file order.
RECURSIVE ExpectedTrain(_)
ExpectedTrain(em) ==
    IF Len(em) = 0 THEN <<>>
    ELSE LET root == em[1].image_root
         IN  [i \in 1..FileCount(root) |->
                 [image_path |-> <<root[1], root[2], i>>,
                  label |-> em[1].label,
                  one_hot |-> OneHotAt(root)]]
             \o ExpectedTrain(Tail(em))

RECURSIVE FilesEmitted(_, _)
FilesEmitted(em, label) ==
    IF Len(em) = 0 THEN 0
    ELSE (IF em[1].label = label THEN FileCount(em[1].image_root) ELSE 0)
         + FilesEmitted(Tail(em), label)

\* C9: in train mode every emission of an entry with K image files appends
\* exactly K records, one per file in sorted order, each with the entry's
\* label and one-hot; so a class holds as many records as the file counts
\* of its emitted entries add up to.
C9_ExpansionPerFile ==
    train =>
        /\ annotations = ExpectedTrain(emitted)
        /\ \A l \in Labels : RecordsOf(l) = FilesEmitted(emitted, l)

\* Both classes emitted twice, yet 4 records for one (an entry of 2 files
\* emitted twice) and fewer for the other, one of whose entries has no file.
C9_Witness ==
    /\ pc = "done"
    /\ train
    /\ EmissionsOf("A") = EmissionsOf("B")
    /\ RecordsOf("A") # RecordsOf("B")
    /\ \E en \in AllEntries :
         FileCount(en.image_root) = 2 /\ EmitCount(en.image_root) = 2
    /\ \E en \in AllEntries :
         FileCount(en.image_root) = 0 /\ EmitCount(en.image_root) >= 1

---------------------------------------------------------------------------
(* Evaluation mode *)

\* Position of the record of entry e of group c in the evaluation dataset.
RECURSIVE Offset(_)
Offset(c) == IF c <= 1 THEN 0 ELSE Len(annot[c - 1].list) + Offset(c - 1)

\* C2: an evaluation dataset holds exactly one record per annotation row of
\* all the sheets read, in group order and row order, whatever the number
\* of files of a row; len(dataset) is the number of rows read.
C2_EvalOneRecordPerRow ==
    (~train /\ pc \in {"summary", "done", "failed"}) =>
        /\ Len(annotations) = RowsRead(seen)
        /\ \A c \in 1..Len(annot) : \A e \in 1..Len(annot[c].list) :
               LET rec == annotations[Offset(c) + e]
                   root == annot[c].list[e].image_root
               IN  /\ rec.label = annot[c].label
                   /\ rec.one_hot = annot[c].list[e].one_hot
                   /\ Len(rec.image_path) = FileCount(root)
                   /\ \A i \in 1..Len(rec.image_path) :
                          rec.image_path[i] = <<root[1], root[2], i>>
        /\ result.status = "len" => result.value = RowsRead(seen)

\* len() of an evaluation dataset read from two splits, one row with two
\* files and one row with none: 2.
C2_Witness ==
    /\ pc = "done"
    /\ ~train
    /\ Len(seen) = 2
    /\ seen[1].rows = 1
    /\ seen[2].rows = 1
    /\ result.status = "len"
    /\ result.value = 2
    /\ \E j \in 1..2 : Len(annotations[j].image_path) = 2
    /\ \E j \in 1..2 : Len(annotations[j].image_path) = 0

---------------------------------------------------------------------------
(* Retrieval *)

\* C3 as stated: every index outside 0 <= index < len(dataset), negative
\* ones included, makes __getitem__ fail with IndexError.
C3_NegativeIndexRejected ==
    (pc = "done" /\ result.status \in GetStatuses) =>
        (~(0 <= index /\ index < Len(annotations)) =>
            result.status = "IndexError")

\* C3: __getitem__ fails with IndexError exactly when the index is outside
\* -len(dataset) <= index < len(dataset) (index = len(dataset) included); an
\* index in -len(dataset)..-1 addresses the record len(dataset) + index.
C3_IndexBounds ==
    (pc = "done" /\ result.status \in GetStatuses) =>
        /\ result.status = "IndexError" <=>
               ~(0 - Len(annotations) <= index /\ index < Len(annotations))
        /\ (result.status = "ok" /\ index < 0) =>
               list_classes[result.value + 1] =
                   annotations[Len(annotations) + index + 1].label
        /\ (result.status = "ok" /\ index >= 0) =>
               list_classes[result.value + 1] = annotations[index + 1].label

\* __getitem__(-1) has returned the last record's class index.
C3_Witness ==
    /\ pc = "done"
    /\ index = -1
    /\ result.status = "ok"
    /\ Len(annotations) >= 2
    /\ list_classes[result.value + 1] = annotations[Len(annotations)].label
    /\ annotations[1].label # annotations[Len(annotations)].label

\* C8: once the dataset is constructed, no call (len, a retrieval that
\* returns, a retrieval that fails) changes the records, their number or
\* the mode.
C8_Immutable ==
    [][pc = "done" =>
          /\ pc' = "done"
          /\ annotations' = annotations
          /\ Len(annotations') = Len(annotations)
          /\ train' = train
          /\ annot' = annot]_vars

\* A retrieval has failed on an undecodable image of a dataset that has
\* other records.
C8_Witness ==
    /\ pc = "done"
    /\ result.status = "TypeError"
    /\ Len(annotations) >= 2

---------------------------------------------------------------------------
(* Construction errors *)

\* C4: a split with no annotation sheet, or with more than one, ends the
\* construction at that split whatever the earlier splits held: the
\* process exits, no later split is read, and the object holds no record.
C4_BadSplitAborts ==
    \A i \in 1..Len(seen) :
        seen[i].annotation_files # 1 =>
            /\ pc = "aborted"
            /\ error = "SystemExit"
            /\ i = Len(seen)
            /\ splitIdx = i - 1
            /\ annotations = <<>>
            /\ result = NoResult

\* The second split has two sheets, after a first split whose rows were read.
C4_Witness ==
    /\ pc = "aborted"
    /\ Len(split_list) = 2
    /\ Len(seen) = 2
    /\ seen[1].annotation_files = 1
    /\ seen[1].rows > 0
    /\ seen[2].annotation_files = 2
    /\ annotations = <<>>

---------------------------------------------------------------------------
(* Labels *)

Configured(label) == \E i \in 1..Len(list_classes) : list_classes[i] = label

\* C6: every record of a constructed dataset carries a configured class, so
\* label resolution in __getitem__ never fails.
C6_LabelsConfigured ==
    pc = "done" =>
        /\ \A j \in 1..Len(annotations) : Configured(annotations[j].label)
        /\ result.status # "ValueError"

\* C7: for every record, the class at the argmax of its one-hot sequence,
\* read in configured class order, is the record's label.
C7_OneHotRoundTrip ==
    pc = "done" =>
        \A j \in 1..Len(annotations) :
            list_classes[Argmax(annotations[j].one_hot) + 1]
                = annotations[j].label

====
